---- MODULE Spec2Model ----
(***************************************************************************)
(* Model of chapter-02/smart_home_agents.py: two agents (ThermostatAgent,  *)
(* EnergyAgent) built on SmartHomeAgent, run as asyncio tasks by           *)
(* demo_smart_home_system.                                                 *)
(*                                                                         *)
(* Units.  Temperatures are integers in hundredths of a degree F           *)
(* (72.0 F = 7200).  Consumption is in whole units (5.0 = 5);              *)
(* total_consumption is in sixtieths of a unit, so that                    *)
(* "total_consumption += consumption / 60" adds the integer consumption.   *)
(*                                                                         *)
(* Scheduling.  asyncio runs one coroutine at a time and switches only     *)
(* where a coroutine really suspends.  send_message, broadcast_message,    *)
(* process_messages, handle_message and update_status contain no           *)
(* suspending await, so the only suspension points are asyncio.sleep and   *)
(* asyncio.gather.  `current` names the coroutine that holds the event     *)
(* loop; "none" means every coroutine is suspended.                        *)
(***************************************************************************)
EXTENDS Integers, Sequences, FiniteSets, TLC

VARIABLES
    pc,                     \* per agent: position of its run() coroutine
    running,                \* per agent: SmartHomeAgent.running
    message_queue,          \* per agent: SmartHomeAgent.message_queue
    other_agents,           \* per agent: SmartHomeAgent.other_agents (names, insertion order)
    status,                 \* per agent: SmartHomeAgent.status
    current_temp,           \* ThermostatAgent.current_temp
    target_temp,            \* ThermostatAgent.target_temp (a Python value)
    heating,                \* ThermostatAgent.heating
    cooling,                \* ThermostatAgent.cooling
    energy_efficiency_mode, \* ThermostatAgent.energy_efficiency_mode
    target_kept,            \* no Request has changed target_temp since heating or cooling last started
    total_consumption,      \* EnergyAgent.total_consumption
    peak_hours,             \* EnergyAgent.peak_hours
    energy_saving_mode,     \* EnergyAgent.energy_saving_mode
    appliance_usage,        \* EnergyAgent.appliance_usage
    consumption,            \* local variable of EnergyAgent.update_status
    published_usage,        \* what appliance_usage held when the status was last assigned
    supPc,                  \* position of demo_smart_home_system
    current,                \* the coroutine holding the event loop
    clock,                  \* the reading of datetime.now()
    hour,                   \* datetime.now().hour
    hourRolled,             \* the hour has changed during the run
    ticks,                  \* per agent: loop iterations begun
    issued,                 \* Requests issued by the driver
    last_message,           \* per agent: the local variable `message` of process_messages
    coarse_clock,           \* the clock may give two consecutive readings the same value
    driver_calls,           \* the send_message calls the driver of this run may make
    stop_requested,         \* per agent: stop() has been called on it
    final_report            \* what the demo prints as the final status

vars == <<pc, running, message_queue, other_agents, status, current_temp,
          target_temp, heating, cooling, energy_efficiency_mode, target_kept,
          total_consumption, peak_hours, energy_saving_mode, appliance_usage,
          consumption, published_usage, supPc, current, clock, hour, hourRolled, ticks, issued,
          last_message, coarse_clock, driver_calls, stop_requested,
          final_report>>

thermoVars == <<current_temp, target_temp, heating, cooling, energy_efficiency_mode,
                target_kept>>
energyVars == <<total_consumption, peak_hours, energy_saving_mode, appliance_usage,
                consumption, published_usage>>
mailVars   == <<message_queue, clock>>
wallVars   == <<hour, hourRolled, coarse_clock, driver_calls, stop_requested>>

----------------------------------------------------------------------------
(* Bounds of the model *)

MaxTicks == 3        \* loop iterations an agent begins before the demo's sleep(10) ends
MaxRequests == 2     \* Requests the driver issues during a run

----------------------------------------------------------------------------
(* Agents and values *)

Thermostat == "Thermostat"
Energy == "Energy"

\* agents = [thermostat, energy]
agents == <<Thermostat, Energy>>

Agents == {agents[i] : i \in 1..Len(agents)}

\* A recipient name no agent carries
Stranger == "Lights"

MessageType == {"status_update", "request", "response", "alert", "coordination"}

\* Python values carried in message contents and held by target_temp
\* (a number in hundredths, or a string, on which arithmetic raises TypeError)
Float(n) == [kind |-> "float", val |-> n]
NotANumber == [kind |-> "str", val |-> 0]
IsNumber(v) == v.kind = "float"

\* {} : the empty dict
EmptyDict == [k \in {} |-> TRUE]

\* d.get(k) used as a condition: a missing key gives None, which is false
GetFlag(d, k) == k \in DOMAIN d /\ d[k]

\* name in registry (a dict keyed by name, kept in insertion order)
InRegistry(name, registry) == \E i \in 1..Len(registry) : registry[i] = name

\* self.other_agents[agent.name] = agent
register_agent(registry, name) ==
    IF InRegistry(name, registry) THEN registry ELSE Append(registry, name)

\* A variant of RegisterAll without the test "agent != other_agent"
RECURSIVE RegisterAllWithSelf(_, _, _)
RegisterAllWithSelf(registry, self, j) ==
    IF j > Len(agents) THEN registry
    ELSE RegisterAllWithSelf(register_agent(registry, agents[j]), self, j + 1)

\* for agent in agents: for other_agent in agents: if agent != other_agent: ...
RECURSIVE RegisterAll(_, _, _)
RegisterAll(registry, self, j) ==
    IF j > Len(agents) THEN registry
    ELSE RegisterAll(IF self # agents[j] THEN register_agent(registry, agents[j])
                     ELSE registry, self, j + 1)

----------------------------------------------------------------------------
(* Messaging.  A mail state m = [mq, clk] threads the queues and the clock *)
(* through the sends of one step.  d is the amount the clock advances      *)
(* between two consecutive readings of datetime.now() inside the step      *)
(* (0: the readings coincide).                                             *)

Message(sender, recipient, message_type, content, timestamp, stamp) ==
    [sender |-> sender, recipient |-> recipient, message_type |-> message_type,
     content |-> content, timestamp |-> timestamp,
     message_id |-> <<sender, stamp>>]

Mail == [mq |-> message_queue, clk |-> clock]

\* other_agents[recipient].message_queue.append(message)
Enqueue(q, message) == Append(q, message)

\* A variant of send_message that returns an Alert to the sender's own mailbox
\* when the recipient is unknown
send_message_bounce(m, self, recipient, message_type, content, d) ==
    LET to == IF InRegistry(recipient, other_agents[self]) THEN recipient ELSE self
        message == Message(self, to,
                           IF to = recipient THEN message_type ELSE "alert",
                           content, m.clk + d, m.clk + d + d)
    IN [mq  |-> [m.mq EXCEPT ![to] = Enqueue(@, message)],
        clk |-> m.clk + d + d]

\* A variant of send_message that keeps a copy of what it sends in the
\* sender's own mailbox
send_message_copy(m, self, recipient, message_type, content, d) ==
    IF ~InRegistry(recipient, other_agents[self]) THEN m
    ELSE LET message == Message(self, recipient, message_type, content,
                                m.clk + d, m.clk + d + d)
         IN [mq  |-> [m.mq EXCEPT ![recipient] = Enqueue(@, message),
                                  ![self] = Enqueue(@, message)],
             clk |-> m.clk + d + d]

\* send_message of an agent whose registry holds the recipient: no early
\* return, the message is built and appended
Deliver(m, sender, recipient, message_type, content, d) ==
    [mq  |-> [m.mq EXCEPT ![recipient] =
                Enqueue(@, Message(sender, recipient, message_type, content,
                                   m.clk + d, m.clk + d + d))],
     clk |-> m.clk + d + d]

send_message(m, self, recipient, message_type, content, d) ==
    IF ~InRegistry(recipient, other_agents[self]) THEN m
    ELSE LET message == Message(self, recipient, message_type, content,
                                m.clk + d, m.clk + d + d)
         IN [mq  |-> [m.mq EXCEPT ![recipient] = Enqueue(@, message)],
             clk |-> m.clk + d + d]

RECURSIVE BroadcastFrom(_, _, _, _, _, _)
BroadcastFrom(m, self, i, message_type, content, d) ==
    IF i > Len(other_agents[self]) THEN m
    ELSE BroadcastFrom(send_message(m, self, other_agents[self][i], message_type,
                                    content, d),
                       self, i + 1, message_type, content, d)

\* A variant of broadcast_message that skips the first registered peer
broadcast_skip_first(m, self, message_type, content, d) ==
    BroadcastFrom(m, self, 2, message_type, content, d)

\* for agent_name in self.other_agents: await self.send_message(agent_name, ...)
broadcast_message(m, self, message_type, content, d) ==
    BroadcastFrom(m, self, 1, message_type, content, d)

\* A variant of Pop that takes the newest message: pop() for pop(0)
PopLast(q) == [message |-> q[Len(q)], rest |-> SubSeq(q, 1, Len(q) - 1)]

\* message = self.message_queue.pop(0)
Pop(q) == [message |-> Head(q), rest |-> Tail(q)]

\* d[k] = v
DictSet(d, k, v) == [x \in DOMAIN d \cup {k} |-> IF x = k THEN v ELSE d[x]]

\* Clock advance between two consecutive readings of datetime.now()
ClockSteps == IF coarse_clock THEN {0, 1} ELSE {1}

----------------------------------------------------------------------------
(* ThermostatAgent *)

\* A variant of TempSteps whose heating and cooling move the temperature by
\* up to 2.5 degrees a tick, more than the band in which they are turned off
TempStepsLeap(h, c) ==
    IF h THEN {10, 250}
    ELSE IF c THEN {0 - 10, 0 - 250}
    ELSE {0 - 10, 0, 10}

\* random.uniform(0.1, 0.3), random.uniform(-0.1, 0.1): the ends of the range
\* (and no drift)
TempSteps(h, c) ==
    IF h THEN {10, 30}
    ELSE IF c THEN {0 - 10, 0 - 30}
    ELSE {0 - 10, 0, 10}

\* A variant of Control whose heating branch leaves cooling as it was
ControlKeepsCooling(temp_diff, h, c) ==
    IF temp_diff > 100 /\ ~h
      THEN [heating |-> TRUE, cooling |-> c, event |-> "heating_started"]
    ELSE IF temp_diff < 0 - 100 /\ ~c
      THEN [heating |-> FALSE, cooling |-> TRUE, event |-> "cooling_started"]
    ELSE IF (IF temp_diff < 0 THEN 0 - temp_diff ELSE temp_diff) < 50 /\ (h \/ c)
      THEN [heating |-> FALSE, cooling |-> FALSE, event |-> "climate_control_off"]
    ELSE [heating |-> h, cooling |-> c, event |-> "none"]

\* A variant of Control that starts heating again on every tick it is needed
ControlRestartsHeating(temp_diff, h, c) ==
    IF temp_diff > 100
      THEN [heating |-> TRUE, cooling |-> FALSE, event |-> "heating_started"]
    ELSE IF temp_diff < 0 - 100 /\ ~c
      THEN [heating |-> FALSE, cooling |-> TRUE, event |-> "cooling_started"]
    ELSE IF (IF temp_diff < 0 THEN 0 - temp_diff ELSE temp_diff) < 50 /\ (h \/ c)
      THEN [heating |-> FALSE, cooling |-> FALSE, event |-> "climate_control_off"]
    ELSE [heating |-> h, cooling |-> c, event |-> "none"]

\* A variant of Control whose cooling branch leaves heating as it was
ControlCoolKeepsHeat(temp_diff, h, c) ==
    IF temp_diff > 100 /\ ~h
      THEN [heating |-> TRUE, cooling |-> FALSE, event |-> "heating_started"]
    ELSE IF temp_diff < 0 - 100 /\ ~c
      THEN [heating |-> h, cooling |-> TRUE, event |-> "cooling_started"]
    ELSE IF (IF temp_diff < 0 THEN 0 - temp_diff ELSE temp_diff) < 50 /\ (h \/ c)
      THEN [heating |-> FALSE, cooling |-> FALSE, event |-> "climate_control_off"]
    ELSE [heating |-> h, cooling |-> c, event |-> "none"]

\* A variant of Control that announces climate_control_off on every tick
\* within half a degree of the target, whatever the flags
ControlOffAlways(temp_diff, h, c) ==
    IF temp_diff > 100 /\ ~h
      THEN [heating |-> TRUE, cooling |-> FALSE, event |-> "heating_started"]
    ELSE IF temp_diff < 0 - 100 /\ ~c
      THEN [heating |-> FALSE, cooling |-> TRUE, event |-> "cooling_started"]
    ELSE IF (IF temp_diff < 0 THEN 0 - temp_diff ELSE temp_diff) < 50
      THEN [heating |-> FALSE, cooling |-> FALSE, event |-> "climate_control_off"]
    ELSE [heating |-> h, cooling |-> c, event |-> "none"]

\* A variant of Control that turns the climate control off within one degree
\* of the target: no band between 0.5 and 1.0
ControlNoDeadZone(temp_diff, h, c) ==
    IF temp_diff > 100 /\ ~h
      THEN [heating |-> TRUE, cooling |-> FALSE, event |-> "heating_started"]
    ELSE IF temp_diff < 0 - 100 /\ ~c
      THEN [heating |-> FALSE, cooling |-> TRUE, event |-> "cooling_started"]
    ELSE IF (IF temp_diff < 0 THEN 0 - temp_diff ELSE temp_diff) <= 100 /\ (h \/ c)
      THEN [heating |-> FALSE, cooling |-> FALSE, event |-> "climate_control_off"]
    ELSE [heating |-> h, cooling |-> c, event |-> "none"]

\* A variant of Control that starts the heating only beyond two degrees
ControlLateHeat(temp_diff, h, c) ==
    IF temp_diff > 200 /\ ~h
      THEN [heating |-> TRUE, cooling |-> FALSE, event |-> "heating_started"]
    ELSE IF temp_diff < 0 - 100 /\ ~c
      THEN [heating |-> FALSE, cooling |-> TRUE, event |-> "cooling_started"]
    ELSE IF (IF temp_diff < 0 THEN 0 - temp_diff ELSE temp_diff) < 50 /\ (h \/ c)
      THEN [heating |-> FALSE, cooling |-> FALSE, event |-> "climate_control_off"]
    ELSE [heating |-> h, cooling |-> c, event |-> "none"]

\* A variant of Control that turns the climate control off only within 0.05
\* of the target, a band narrower than a tick's temperature step
ControlNarrowOff(temp_diff, h, c) ==
    IF temp_diff > 100 /\ ~h
      THEN [heating |-> TRUE, cooling |-> FALSE, event |-> "heating_started"]
    ELSE IF temp_diff < 0 - 100 /\ ~c
      THEN [heating |-> FALSE, cooling |-> TRUE, event |-> "cooling_started"]
    ELSE IF (IF temp_diff < 0 THEN 0 - temp_diff ELSE temp_diff) < 5 /\ (h \/ c)
      THEN [heating |-> FALSE, cooling |-> FALSE, event |-> "climate_control_off"]
    ELSE [heating |-> h, cooling |-> c, event |-> "none"]

\* The control logic of update_status on temp_diff: the new flags and the
\* StatusUpdate it broadcasts ("none": no broadcast)
Control(temp_diff, h, c) ==
    IF temp_diff > 100 /\ ~h
      THEN [heating |-> TRUE, cooling |-> FALSE, event |-> "heating_started"]
    ELSE IF temp_diff < 0 - 100 /\ ~c
      THEN [heating |-> FALSE, cooling |-> TRUE, event |-> "cooling_started"]
    ELSE IF (IF temp_diff < 0 THEN 0 - temp_diff ELSE temp_diff) < 50 /\ (h \/ c)
      THEN [heating |-> FALSE, cooling |-> FALSE, event |-> "climate_control_off"]
    ELSE [heating |-> h, cooling |-> c, event |-> "none"]

\* The content of the StatusUpdate broadcast for an event
StatusContent(event, temp, target) ==
    CASE event = "heating_started" ->
           [heating_started |-> TRUE, current_temp |-> temp, target_temp |-> target]
      [] event = "cooling_started" ->
           [cooling_started |-> TRUE, current_temp |-> temp, target_temp |-> target]
      [] OTHER ->
           [climate_control_off |-> TRUE, current_temp |-> temp]

\* round(x, 1) of a temperature in hundredths
Round1(x) == ((x + 5) \div 10) * 10

\* self.target_temp -= 2 / += 2 while the efficiency mode is being enabled
EfficiencyTarget(target, h, c) ==
    IF h THEN Float(target.val - 200)
    ELSE IF c THEN Float(target.val + 200)
    ELSE target

\* A variant of ThermostatHandle that answers before it stores: the Response
\* carries the target it had, and the new one is never kept
ThermostatHandleStale(message, m, d) ==
    LET same == [target |-> target_temp, eem |-> energy_efficiency_mode,
                 mail |-> m, raised |-> FALSE]
        content == message.content
    IN IF message.message_type # "request" THEN same
       ELSE IF "set_temperature" \in DOMAIN content
         THEN [same EXCEPT
                 !.mail = send_message(m, Thermostat, message.sender, "response",
                            [temperature_set |-> TRUE,
                             new_target |-> target_temp], d)]
       ELSE same

\* A variant of ThermostatHandle that obeys a Coordination message by
\* enabling the efficiency mode
ThermostatHandleSaving(message, m, d) ==
    LET same == [target |-> target_temp, eem |-> energy_efficiency_mode,
                 mail |-> m, raised |-> FALSE]
    IN IF message.message_type = "coordination"
       THEN [same EXCEPT !.eem = TRUE]
       ELSE same

\* A variant of ThermostatHandle that adjusts the target only when the
\* efficiency mode goes from disabled to enabled
ThermostatHandleOnChange(message, m, d) ==
    LET same == [target |-> target_temp, eem |-> energy_efficiency_mode,
                 mail |-> m, raised |-> FALSE]
        content == message.content
    IN IF message.message_type # "request" THEN same
       ELSE IF "set_temperature" \in DOMAIN content
         THEN [same EXCEPT
                 !.target = content.set_temperature,
                 !.mail = send_message(m, Thermostat, message.sender, "response",
                            [temperature_set |-> TRUE,
                             new_target |-> content.set_temperature], d)]
       ELSE IF "energy_efficiency_mode" \in DOMAIN content
         THEN [same EXCEPT
                 !.eem = content.energy_efficiency_mode,
                 !.target = IF content.energy_efficiency_mode
                               /\ ~energy_efficiency_mode /\ IsNumber(target_temp)
                            THEN EfficiencyTarget(target_temp, heating, cooling)
                            ELSE target_temp]
       ELSE same

\* A variant of ThermostatHandle with "if" for the "elif" of line 162: a
\* Request that holds both keys has both applied
ThermostatHandleBothKeys(message, m, d) ==
    LET same == [target |-> target_temp, eem |-> energy_efficiency_mode,
                 mail |-> m, raised |-> FALSE]
        content == message.content
        set == IF "set_temperature" \in DOMAIN content
               THEN [same EXCEPT
                       !.target = content.set_temperature,
                       !.mail = send_message(m, Thermostat, message.sender, "response",
                                  [temperature_set |-> TRUE,
                                   new_target |-> content.set_temperature], d)]
               ELSE same
    IN IF message.message_type # "request" THEN same
       ELSE IF "energy_efficiency_mode" \in DOMAIN content
         THEN [set EXCEPT
                 !.eem = content.energy_efficiency_mode,
                 !.target = IF content.energy_efficiency_mode /\ IsNumber(set.target)
                            THEN EfficiencyTarget(set.target, heating, cooling)
                            ELSE set.target]
       ELSE set

\* ThermostatAgent.handle_message: the new target_temp and
\* energy_efficiency_mode, the mail state, and whether a TypeError was raised
ThermostatHandle(message, m, d) ==
    LET same == [target |-> target_temp, eem |-> energy_efficiency_mode,
                 mail |-> m, raised |-> FALSE]
        content == message.content
    IN IF message.message_type # "request" THEN same
       ELSE IF "set_temperature" \in DOMAIN content
         THEN [same EXCEPT
                 !.target = content.set_temperature,
                 !.mail = send_message(m, Thermostat, message.sender, "response",
                            [temperature_set |-> TRUE,
                             new_target |-> content.set_temperature], d)]
       ELSE IF "energy_efficiency_mode" \in DOMAIN content
         THEN IF content.energy_efficiency_mode /\ (heating \/ cooling)
                 /\ ~IsNumber(target_temp)
                THEN [same EXCEPT !.eem = content.energy_efficiency_mode,
                                  !.raised = TRUE]
                ELSE [same EXCEPT
                        !.eem = content.energy_efficiency_mode,
                        !.target = IF content.energy_efficiency_mode
                                   THEN EfficiencyTarget(target_temp, heating, cooling)
                                   ELSE target_temp]
       ELSE same

\* SmartHomeAgent.handle_message only prints; EnergyAgent does not override it
handle_message(self, message, m, d) ==
    IF self = Thermostat THEN ThermostatHandle(message, m, d)
    ELSE [target |-> target_temp, eem |-> energy_efficiency_mode,
          mail |-> m, raised |-> FALSE]

----------------------------------------------------------------------------
(* EnergyAgent *)

\* self.peak_hours = 16 <= current_hour <= 20
PeakHour(h) == 16 <= h /\ h <= 20

\* A variant of Consumption for status.get("heating", True): a Thermostat that
\* has published nothing counts as heating
ConsumptionAssumesHeating(registry, st) ==
    5 + (IF InRegistry(Thermostat, registry)
         THEN IF "heating" \notin DOMAIN st[Thermostat] \/ st[Thermostat].heating
              THEN 15
              ELSE IF GetFlag(st[Thermostat], "cooling") THEN 12
              ELSE 0
         ELSE 0)

\* A variant of Consumption that credits the hvac instead of charging it
ConsumptionCredit(registry, st) ==
    5 - (IF InRegistry(Thermostat, registry)
         THEN IF GetFlag(st[Thermostat], "heating") THEN 15
              ELSE IF GetFlag(st[Thermostat], "cooling") THEN 12
              ELSE 0
         ELSE 0)

\* A variant of Consumption that charges the heating at the cooling's rate
ConsumptionFlat(registry, st) ==
    5 + (IF InRegistry(Thermostat, registry)
         THEN IF GetFlag(st[Thermostat], "heating") THEN 12
              ELSE IF GetFlag(st[Thermostat], "cooling") THEN 12
              ELSE 0
         ELSE 0)

\* A variant of Consumption that charges the heating 16.0
ConsumptionHeavy(registry, st) ==
    5 + (IF InRegistry(Thermostat, registry)
         THEN IF GetFlag(st[Thermostat], "heating") THEN 16
              ELSE IF GetFlag(st[Thermostat], "cooling") THEN 12
              ELSE 0
         ELSE 0)

\* consumption = 5.0, plus 15.0 / 12.0 by the Thermostat's published status
Consumption(registry, st) ==
    5 + (IF InRegistry(Thermostat, registry)
         THEN IF GetFlag(st[Thermostat], "heating") THEN 15
              ELSE IF GetFlag(st[Thermostat], "cooling") THEN 12
              ELSE 0
         ELSE 0)

\* A variant of SavingTrigger that fires at 20.0 and forgets the mode flag
SavingTriggerRepeats(peak, cons, saving) == peak /\ cons >= 20

\* if self.peak_hours and consumption > 20.0 and not self.energy_saving_mode
SavingTrigger(peak, cons, saving) == peak /\ cons > 20 /\ ~saving

\* round(total_consumption, 2), from sixtieths to hundredths
Round2(n) == (10 * n + 3) \div 6

\* A variant of StatusView that gives the status the agent was constructed with
StatusViewInitial(a) == EmptyDict

\* What a reader of agent.status obtains: the "appliance_usage" entry of the
\* EnergyAgent's status is the very dict self.appliance_usage, not a copy
StatusView(a) ==
    IF "appliance_usage" \in DOMAIN status[a]
    THEN [status[a] EXCEPT !["appliance_usage"] = appliance_usage]
    ELSE status[a]

----------------------------------------------------------------------------
(* Initial state: the agents as constructed, before the demo wires them *)

\* Hours at which a run starts: the hour before the peak window, and an hour in it
StartHours == {15, 19}

\* The agents as constructed, for a run whose driver makes the given calls
\* and whose clock is coarse or not
InitOn(calls, coarse) ==
    /\ driver_calls = calls
    /\ pc = [a \in Agents |-> "new"]
    /\ running = [a \in Agents |-> FALSE]
    /\ message_queue = [a \in Agents |-> << >>]
    /\ other_agents = [a \in Agents |-> << >>]
    /\ status = [a \in Agents |-> EmptyDict]
    /\ current_temp = 7200
    /\ target_temp = Float(7200)
    /\ heating = FALSE
    /\ cooling = FALSE
    /\ energy_efficiency_mode = FALSE
    /\ target_kept = TRUE
    /\ total_consumption = 0
    /\ peak_hours = FALSE
    /\ energy_saving_mode = FALSE
    /\ appliance_usage = EmptyDict
    /\ consumption = 0
    /\ published_usage = EmptyDict
    /\ supPc = "wire"
    /\ current = "Supervisor"
    /\ clock = 0
    /\ hour \in StartHours
    /\ hourRolled = FALSE
    /\ ticks = [a \in Agents |-> 0]
    /\ issued = 0
    /\ last_message = [a \in Agents |-> << >>]
    /\ coarse_clock = coarse
    /\ stop_requested = [a \in Agents |-> FALSE]
    /\ final_report = EmptyDict

\* The same, with a clock that advances between any two readings
InitWith(calls) == InitOn(calls, FALSE)

----------------------------------------------------------------------------
(* SmartHomeAgent.run *)

agentVars == <<running, other_agents, status, thermoVars, energyVars>>

\* The task's first step: self.running = True, then the loop test
Start(a) ==
    /\ current = "none"
    /\ pc[a] = "created"
    /\ running' = [running EXCEPT ![a] = TRUE]
    /\ pc' = [pc EXCEPT ![a] = "test"]
    /\ current' = a
    /\ UNCHANGED <<message_queue, other_agents, status, thermoVars, energyVars,
                   supPc, clock, wallVars, ticks, issued, last_message,
                   final_report>>

\* A variant of LoopTest for a loop body that updates before it drains
LoopTestUpdateFirst(a) ==
    /\ current = a
    /\ pc[a] = "test"
    /\ IF running[a]
       THEN /\ pc' = [pc EXCEPT ![a] = "update"]
            /\ ticks' = [ticks EXCEPT ![a] = @ + 1]
            /\ UNCHANGED current
       ELSE /\ pc' = [pc EXCEPT ![a] = "stopped"]
            /\ current' = "none"
            /\ UNCHANGED ticks
    /\ UNCHANGED <<running, message_queue, other_agents, status, thermoVars,
                   energyVars, supPc, clock, wallVars, issued, last_message, final_report>>

\* while self.running:
LoopTest(a) ==
    /\ current = a
    /\ pc[a] = "test"
    /\ IF running[a]
       THEN /\ pc' = [pc EXCEPT ![a] = "drain"]
            /\ ticks' = [ticks EXCEPT ![a] = @ + 1]
            /\ UNCHANGED current
       ELSE /\ pc' = [pc EXCEPT ![a] = "stopped"]
            /\ current' = "none"
            /\ UNCHANGED ticks
    /\ UNCHANGED <<running, message_queue, other_agents, status, thermoVars,
                   energyVars, supPc, clock, wallVars, issued, last_message, final_report>>

\* A variant of QueueEmpty for "while self.running and self.message_queue"
QueueEmptyOrStopped(a) == message_queue[a] = << >> \/ ~running[a]

\* not self.message_queue: the loop condition of process_messages fails
QueueEmpty(a) == message_queue[a] = << >>

\* One iteration of "while self.message_queue: pop(0); handle_message", or
\* the end of process_messages when the queue is empty
process_messages(a) ==
    /\ current = a
    /\ pc[a] = "drain"
    /\ IF QueueEmpty(a)
       THEN \* process_messages returns; its local variable is gone
            /\ pc' = [pc EXCEPT ![a] = "update"]
            /\ last_message' = [last_message EXCEPT ![a] = << >>]
            /\ UNCHANGED <<current, mailVars, target_temp, energy_efficiency_mode,
                           target_kept>>
       ELSE \E d \in ClockSteps :
              LET p == Pop(message_queue[a])
                  h == handle_message(a, p.message,
                                      [Mail EXCEPT !.mq[a] = p.rest], d)
              IN /\ last_message' = [last_message EXCEPT ![a] = <<p.message>>]
                 /\ message_queue' = h.mail.mq
                 /\ clock' = h.mail.clk
                 /\ target_temp' = h.target
                 /\ energy_efficiency_mode' = h.eem
                 /\ target_kept' = (target_kept /\ h.target = target_temp)
                 /\ IF h.raised
                    THEN /\ pc' = [pc EXCEPT ![a] = "failed"]
                         /\ current' = "none"
                    ELSE UNCHANGED <<pc, current>>
    /\ UNCHANGED <<running, other_agents, status, current_temp, heating, cooling,
                   energyVars, supPc, wallVars, ticks, issued, final_report>>

\* ThermostatAgent.update_status up to the end of the control logic
ThermostatControl ==
    /\ current = Thermostat
    /\ pc[Thermostat] = "update"
    /\ \E delta \in TempSteps(heating, cooling), d \in ClockSteps :
         LET temp == current_temp + delta IN
         /\ current_temp' = temp
         /\ IF ~IsNumber(target_temp)
            THEN \* temp_diff = self.target_temp - self.current_temp raises TypeError
                 /\ pc' = [pc EXCEPT ![Thermostat] = "failed"]
                 /\ current' = "none"
                 /\ UNCHANGED <<heating, cooling, mailVars, target_kept>>
            ELSE LET c == Control(target_temp.val - temp, heating, cooling)
                     m == IF c.event = "none" THEN Mail
                          ELSE broadcast_message(Mail, Thermostat, "status_update",
                                 StatusContent(c.event, temp, target_temp), d)
                 IN /\ heating' = c.heating
                    /\ cooling' = c.cooling
                    /\ target_kept' = (target_kept
                                         \/ c.event \in {"heating_started",
                                                         "cooling_started"})
                    /\ message_queue' = m.mq
                            /\ clock' = m.clk
                    /\ pc' = [pc EXCEPT ![Thermostat] = "publish"]
                    /\ UNCHANGED current
    /\ UNCHANGED <<running, other_agents, status, target_temp,
                   energy_efficiency_mode, energyVars, supPc, wallVars, ticks,
                   issued, last_message, final_report>>

\* self.status = {...} of ThermostatAgent.update_status, then asyncio.sleep(1)
ThermostatPublish ==
    /\ current = Thermostat
    /\ pc[Thermostat] = "publish"
    /\ status' = [status EXCEPT ![Thermostat] =
                    [current_temp |-> Round1(current_temp),
                     target_temp |-> target_temp,
                     heating |-> heating,
                     cooling |-> cooling,
                     energy_efficiency_mode |-> energy_efficiency_mode]]
    /\ pc' = [pc EXCEPT ![Thermostat] = "sleep"]
    /\ current' = "none"
    /\ UNCHANGED <<running, other_agents, thermoVars, energyVars, mailVars, supPc,
                   wallVars, ticks, issued, last_message, final_report>>

\* EnergyAgent.update_status up to self.appliance_usage["hvac"] = ...
EnergyMeasure ==
    /\ current = Energy
    /\ pc[Energy] = "update"
    /\ LET cons == Consumption(other_agents[Energy], status) IN
         /\ peak_hours' = PeakHour(hour)
         /\ consumption' = cons
         /\ total_consumption' = total_consumption + cons
         /\ appliance_usage' = DictSet(appliance_usage, "hvac", cons - 5)
    /\ pc' = [pc EXCEPT ![Energy] = "publish"]
    /\ UNCHANGED <<running, other_agents, status, thermoVars, energy_saving_mode,
                   published_usage, mailVars, supPc, current, wallVars, ticks,
                   issued, last_message, final_report>>

\* The energy-saving recommendation and self.status = {...} of
\* EnergyAgent.update_status, then asyncio.sleep(1)
EnergyPublish ==
    /\ current = Energy
    /\ pc[Energy] = "publish"
    /\ \E d \in ClockSteps :
         LET trigger == SavingTrigger(peak_hours, consumption, energy_saving_mode)
             m == IF trigger
                  THEN broadcast_message(Mail, Energy, "coordination",
                         [energy_saving_request |-> TRUE,
                          reason |-> "peak_hours_high_consumption",
                          current_consumption |-> consumption], d)
                  ELSE Mail
         IN /\ message_queue' = m.mq
            /\ clock' = m.clk
            /\ energy_saving_mode' = (energy_saving_mode \/ trigger)
            /\ status' = [status EXCEPT ![Energy] =
                            [total_consumption |-> Round2(total_consumption),
                             current_consumption |-> consumption,
                             peak_hours |-> peak_hours,
                             energy_saving_mode |-> energy_saving_mode',
                             appliance_usage |-> "self.appliance_usage"]]
    /\ published_usage' = appliance_usage
    /\ pc' = [pc EXCEPT ![Energy] = "sleep"]
    /\ current' = "none"
    /\ UNCHANGED <<running, other_agents, thermoVars, total_consumption, peak_hours,
                   appliance_usage, consumption, supPc, wallVars, ticks, issued,
                   last_message, final_report>>

\* A task is done when run() has returned or raised
TaskDone(a) == pc[a] \in {"stopped", "failed"}

\* The timer of a's asyncio.sleep(1) is due: every agent sleeps the same
\* second per iteration, so a does not begin iteration k+1 before every
\* live agent has begun iteration k; and the demo's sleep(10), started
\* before the tasks first ran, is due before the agents' iteration MaxTicks+1
TimerDue(a) ==
    /\ \A b \in Agents \ {a} : TaskDone(b) \/ ticks[b] >= ticks[a]
    /\ ticks[a] < MaxTicks \/ ~running[a]

\* A variant of Wake for a scheduler that resumes a sleeper while another
\* coroutine is in the middle of its tick
WakePreempts(a) ==
    /\ pc[a] = "sleep"
    /\ TimerDue(a)
    /\ pc' = [pc EXCEPT ![a] = "test"]
    /\ current' = a
    /\ clock' = clock + 1
    /\ UNCHANGED <<running, message_queue, other_agents, status, thermoVars,
                   energyVars, supPc, wallVars, ticks, issued, last_message, final_report>>

\* asyncio.sleep(1) returns: at least one clock unit has passed
Wake(a) ==
    /\ current = "none"
    /\ pc[a] = "sleep"
    /\ TimerDue(a)
    /\ pc' = [pc EXCEPT ![a] = "test"]
    /\ current' = a
    /\ clock' = clock + 1
    /\ UNCHANGED <<running, message_queue, other_agents, status, thermoVars,
                   energyVars, supPc, wallVars, ticks, issued, last_message, final_report>>

----------------------------------------------------------------------------
(* demo_smart_home_system *)

\* for agent in agents: for other_agent in agents: agent.register_agent(other_agent)
SupWire ==
    /\ current = "Supervisor"
    /\ supPc = "wire"
    /\ other_agents' = [a \in Agents |-> RegisterAll(other_agents[a], a, 1)]
    /\ supPc' = "start"
    /\ UNCHANGED <<pc, running, message_queue, status, thermoVars, energyVars,
                   current, clock, wallVars, ticks, issued, last_message,
                   final_report>>

\* agent_tasks = [asyncio.create_task(agent.run()) ...]; await asyncio.sleep(10)
SupStart ==
    /\ current = "Supervisor"
    /\ supPc = "start"
    /\ pc' = [a \in Agents |-> "created"]
    /\ supPc' = "sleeping"
    /\ current' = "none"
    /\ UNCHANGED <<running, message_queue, other_agents, status, thermoVars,
                   energyVars, clock, wallVars, ticks, issued, last_message, final_report>>

\* asyncio.sleep(10) returns: every agent has begun its iterations of the ten
\* seconds (MaxTicks of them in the model) and sleeps, or its task is done
SupWake ==
    /\ current = "none"
    /\ supPc = "sleeping"
    /\ \A a \in Agents : TaskDone(a) \/ (pc[a] = "sleep" /\ ticks[a] = MaxTicks)
    /\ supPc' = "stop"
    /\ current' = "Supervisor"
    /\ clock' = clock + 1
    /\ UNCHANGED <<pc, running, message_queue, other_agents, status, thermoVars,
                   energyVars, wallVars, ticks, issued, last_message,
                   final_report>>

\* A variant of stop that leaves the flag as it is
stop_forgets(run, a) == run

\* SmartHomeAgent.stop
stop(run, a) == [run EXCEPT ![a] = FALSE]

RECURSIVE StopAll(_, _)
StopAll(run, i) ==
    IF i > Len(agents) THEN run ELSE StopAll(stop(run, agents[i]), i + 1)

\* for agent in agents: agent.stop(); then await asyncio.gather(...)
SupStop ==
    /\ current = "Supervisor"
    /\ supPc = "stop"
    /\ running' = StopAll(running, 1)
    /\ stop_requested' = [a \in Agents |-> TRUE]
    /\ supPc' = "join"
    /\ current' = "none"
    /\ UNCHANGED <<pc, message_queue, other_agents, status, thermoVars, energyVars,
                   clock, hour, hourRolled, coarse_clock, driver_calls, ticks,
                   issued, last_message, final_report>>

\* asyncio.gather(*agent_tasks, return_exceptions=True) returns when every
\* task is done; then the final status of every agent is printed
SupJoin ==
    /\ current = "none"
    /\ supPc = "join"
    /\ \A a \in Agents : TaskDone(a)
    /\ final_report' = [a \in Agents |-> StatusView(a)]
    /\ supPc' = "done"
    /\ UNCHANGED <<pc, running, message_queue, other_agents, status, thermoVars,
                   energyVars, current, clock, wallVars, ticks, issued, last_message>>

----------------------------------------------------------------------------
(* Environment *)

\* Values a driver puts under "set_temperature"
TempValues == {Float(7080), Float(7305), NotANumber}

\* Request contents a driver sends to the Thermostat
ThermostatRequests ==
    {[set_temperature |-> v] : v \in TempValues}
      \cup {[energy_efficiency_mode |-> b] : b \in BOOLEAN}

\* The send_message calls of a driver: <<sender, recipient, content>>
CoreCalls ==
    {<<Energy, Thermostat, c>> : c \in ThermostatRequests}

\* The type a driver gives a message: the Coordination content of lines
\* 204-207 goes out as COORDINATION, everything else as REQUEST
CallType(content) ==
    IF "energy_saving_request" \in DOMAIN content THEN "coordination" ELSE "request"

\* One send_message of a driver
DriverSend(m, sender, recipient, content, d) ==
    IF sender \in Agents
    THEN send_message(m, sender, recipient, CallType(content), content, d)
    ELSE \* an agent outside the demo that has registered the recipient
         Deliver(m, sender, recipient, CallType(content), content, d)

\* A call <<sender, recipient, content, ...>>: the driver awaits one
\* send_message per content, one right after the other
RECURSIVE DriverSends(_, _, _, _)
DriverSends(m, call, k, d) ==
    IF k > Len(call) THEN m
    ELSE DriverSends(DriverSend(m, call[1], call[2], call[k], d), call, k + 1, d)

\* A driver coroutine awaits sender.send_message(recipient, type, content)
\* while the demo sleeps
IssueRequest ==
    /\ current = "none"
    /\ supPc = "sleeping"
    /\ issued < MaxRequests
    /\ \E call \in driver_calls, d \in ClockSteps :
         LET m == DriverSends(Mail, call, 3, d)
         IN /\ message_queue' = m.mq
            /\ clock' = m.clk
    /\ issued' = issued + 1
    /\ UNCHANGED <<pc, running, other_agents, status, thermoVars, energyVars,
                   supPc, current, wallVars, ticks, last_message, final_report>>

\* The wall clock passes the hour (at most once in a run of ten seconds)
HourRolls ==
    /\ current = "none"
    /\ ~hourRolled
    /\ supPc = "sleeping"
    /\ hour' = (hour + 1) % 24
    /\ hourRolled' = TRUE
    /\ UNCHANGED <<pc, running, message_queue, other_agents, status, thermoVars,
                   energyVars, supPc, current, clock, coarse_clock, driver_calls,
                   stop_requested, ticks, issued, last_message, final_report>>

\* A caller outside the event loop (another thread, a signal handler) calls
\* agent.stop(), at any point of the agent's tick
ExternalStop(a) ==
    /\ supPc \in {"sleeping", "stop", "join"}
    /\ running[a]
    /\ running' = stop(running, a)
    /\ stop_requested' = [stop_requested EXCEPT ![a] = TRUE]
    /\ UNCHANGED <<pc, message_queue, other_agents, status, thermoVars, energyVars,
                   supPc, current, clock, hour, hourRolled, coarse_clock,
                   driver_calls, ticks, issued, last_message, final_report>>

\* A holder of the agent calls agent.stop() after asyncio.create_task(agent.run())
\* and before the event loop has run the task's first step
EarlyStop(a) ==
    /\ supPc = "sleeping"
    /\ pc[a] = "created"
    /\ ~stop_requested[a]
    /\ running' = stop(running, a)
    /\ stop_requested' = [stop_requested EXCEPT ![a] = TRUE]
    /\ UNCHANGED <<pc, message_queue, other_agents, status, thermoVars, energyVars,
                   supPc, current, clock, hour, hourRolled, coarse_clock,
                   driver_calls, ticks, issued, last_message, final_report>>

----------------------------------------------------------------------------
(* Specifications *)

Init == InitWith(CoreCalls)

AgentStep(a) ==
    \/ Start(a)
    \/ LoopTest(a)
    \/ process_messages(a)
    \/ Wake(a)

Next ==
    \/ SupWire
    \/ SupStart
    \/ SupWake
    \/ SupStop
    \/ SupJoin
    \/ \E a \in Agents : AgentStep(a)
    \/ ThermostatControl
    \/ ThermostatPublish
    \/ EnergyMeasure
    \/ EnergyPublish
    \/ IssueRequest

\* The demo as asyncio schedules it
Spec == Init /\ [][Next]_vars

\* asyncio runs every ready coroutine and fires every due timer
Fairness ==
    /\ WF_vars(SupWire \/ SupStart \/ SupWake \/ SupStop \/ SupJoin)
    /\ \A a \in Agents : WF_vars(AgentStep(a))
    /\ WF_vars(ThermostatControl \/ ThermostatPublish)
    /\ WF_vars(EnergyMeasure \/ EnergyPublish)

\* Runs whose driver only sets the temperature, to a number or to a string
SetCalls ==
    {<<Energy, Thermostat, [set_temperature |-> v]>> : v \in {Float(7305), NotANumber}}

InitSet == InitWith(SetCalls)

\* Those runs, scheduled fairly
FairSpec == InitSet /\ [][Next]_vars /\ Fairness

\* Those runs, with stop() also called from outside the event loop
NextExt == Next \/ \E a \in Agents : ExternalStop(a)

SpecExt == InitSet /\ [][NextExt]_vars

\* The demo in a run during which the wall clock passes the hour
NextWall == Next \/ HourRolls

\* Runs with an agent outside the mesh: it has registered the Thermostat and
\* sends it Requests, no agent of the demo has registered it, and the Energy
\* agent is asked to write to it
StrangerCalls ==
    {<<Stranger, Thermostat, [set_temperature |-> Float(7305)]>>,
     <<Energy, Stranger, [set_temperature |-> Float(7305)]>>,
     <<Energy, Thermostat, [energy_efficiency_mode |-> TRUE]>>}

InitStranger == InitWith(StrangerCalls)

StrangerSpec == InitStranger /\ [][Next]_vars

\* Runs with Requests that name no operation of their receiver: an unknown
\* key for the Thermostat, and Requests to the EnergyAgent
UnsupportedCalls ==
    {<<Energy, Thermostat, [get_status |-> TRUE]>>,
     <<Thermostat, Energy, [get_status |-> TRUE]>>,
     <<Thermostat, Energy, [set_temperature |-> Float(7305)]>>}

InitUnsupported == InitWith(UnsupportedCalls)

UnsupportedSpec == InitUnsupported /\ [][Next]_vars

\* Runs on a machine whose clock can give two consecutive readings the same
\* value (a clock tick longer than a send takes)
CoarseCalls == {<<Energy, Thermostat, [set_temperature |-> Float(7305)]>>}

InitCoarse == InitOn(CoarseCalls, TRUE)

CoarseSpec == InitCoarse /\ [][Next]_vars

\* Runs in which stop() can also come before a task's first step
NextEarly == Next \/ \E a \in Agents : EarlyStop(a)

EarlySpec == InitSet /\ [][NextEarly]_vars

\* Runs whose driver sets a temperature, and sends three Requests in a row:
\* a temperature that is not a number, the efficiency mode, a temperature
BatchCalls ==
    {<<Energy, Thermostat, [set_temperature |-> Float(7305)]>>,
     <<Energy, Thermostat, [set_temperature |-> NotANumber],
                           [energy_efficiency_mode |-> TRUE],
                           [set_temperature |-> Float(7305)]>>}

InitBatch == InitWith(BatchCalls)

BatchSpec == InitBatch /\ [][Next]_vars

\* Runs during which the wall clock passes the hour: from 15 to 16, from 19
\* to 20
WallCalls == {<<Energy, Thermostat, [set_temperature |-> Float(7305)]>>}

InitWall == InitWith(WallCalls)

WallSpec == InitWall /\ [][NextWall]_vars

\* Runs in which the Thermostat also receives a message that is no Request:
\* the Coordination of lines 204-207, sent for the EnergyAgent by a driver
UnhandledCalls ==
    {<<Energy, Thermostat, [energy_saving_request |-> TRUE,
                            reason |-> "peak_hours_high_consumption",
                            current_consumption |-> 20]>>,
     <<Energy, Thermostat, [set_temperature |-> Float(7305)]>>}

InitUnhandled == InitWith(UnhandledCalls)

UnhandledSpec == InitUnhandled /\ [][Next]_vars

\* Runs whose driver sends Requests that hold both keys, and the efficiency
\* mode twice in a row: enabled and enabled again, enabled and disabled
RepeatCalls ==
    {<<Energy, Thermostat, [set_temperature |-> Float(7305),
                            energy_efficiency_mode |-> TRUE]>>,
     <<Energy, Thermostat, [set_temperature |-> Float(7080),
                            energy_efficiency_mode |-> FALSE]>>,
     <<Energy, Thermostat, [energy_efficiency_mode |-> TRUE],
                           [energy_efficiency_mode |-> TRUE]>>,
     <<Energy, Thermostat, [energy_efficiency_mode |-> TRUE],
                           [energy_efficiency_mode |-> FALSE]>>}

InitRepeat == InitWith(RepeatCalls)

RepeatSpec == InitRepeat /\ [][Next]_vars

\* A Thermostat run on its own and never stopped: a caller has constructed
\* it, created the task of its run() and waits without end.  No agent is
\* registered with it; an agent outside (which has registered it) sends it
\* Requests.  The run has no last tick, so the iterations are not counted
\* and the time the sleeps take is not tracked.
SoloCalls ==
    {<<Stranger, Thermostat, [set_temperature |-> v]>> :
        v \in {Float(7305), Float(7080), Float(7200)}}

\* The targets of such a run
SoloTargets == {Float(7200)} \cup {call[3].set_temperature : call \in SoloCalls}

InitSolo ==
    /\ driver_calls = SoloCalls
    /\ pc = [a \in Agents |-> IF a = Thermostat THEN "created" ELSE "new"]
    /\ running = [a \in Agents |-> FALSE]
    /\ message_queue = [a \in Agents |-> << >>]
    /\ other_agents = [a \in Agents |-> << >>]
    /\ status = [a \in Agents |-> EmptyDict]
    /\ current_temp = 7200
    /\ target_temp = Float(7200)
    /\ heating = FALSE
    /\ cooling = FALSE
    /\ energy_efficiency_mode = FALSE
    /\ target_kept = TRUE
    /\ total_consumption = 0
    /\ peak_hours = FALSE
    /\ energy_saving_mode = FALSE
    /\ appliance_usage = EmptyDict
    /\ consumption = 0
    /\ published_usage = EmptyDict
    /\ supPc = "sleeping"
    /\ current = "none"
    /\ clock = 0
    /\ hour \in StartHours
    /\ hourRolled = FALSE
    /\ ticks = [a \in Agents |-> 0]
    /\ issued = 0
    /\ last_message = [a \in Agents |-> << >>]
    /\ coarse_clock = FALSE
    /\ stop_requested = [a \in Agents |-> FALSE]
    /\ final_report = EmptyDict

\* while self.running: in a run whose iterations are not counted
LoopTestOn(a) ==
    /\ current = a
    /\ pc[a] = "test"
    /\ IF running[a]
       THEN /\ pc' = [pc EXCEPT ![a] = "drain"]
            /\ UNCHANGED current
       ELSE /\ pc' = [pc EXCEPT ![a] = "stopped"]
            /\ current' = "none"
    /\ UNCHANGED <<running, message_queue, other_agents, status, thermoVars,
                   energyVars, supPc, clock, wallVars, ticks, issued, last_message,
                   final_report>>

\* asyncio.sleep(1) returns, in a run whose time is not tracked
WakeOn(a) ==
    /\ current = "none"
    /\ pc[a] = "sleep"
    /\ pc' = [pc EXCEPT ![a] = "test"]
    /\ current' = a
    /\ UNCHANGED <<running, message_queue, other_agents, status, thermoVars,
                   energyVars, supPc, clock, wallVars, ticks, issued, last_message,
                   final_report>>

SoloStep ==
    \/ Start(Thermostat)
    \/ LoopTestOn(Thermostat)
    \/ process_messages(Thermostat)
    \/ WakeOn(Thermostat)

NextSolo ==
    \/ SoloStep
    \/ ThermostatControl
    \/ ThermostatPublish
    \/ IssueRequest

\* The event loop runs the Thermostat's coroutine whenever it is ready and
\* fires its timer; the sender of the Requests is under no obligation
FairnessSolo ==
    /\ WF_vars(SoloStep)
    /\ WF_vars(ThermostatControl \/ ThermostatPublish)

SoloSpec == InitSolo /\ [][NextSolo]_vars /\ FairnessSolo

\* The end-to-end scenario: the driver asks for 80 degrees, nothing else
ScenarioCalls == {<<Energy, Thermostat, [set_temperature |-> Float(8000)]>>}

InitScenario == InitWith(ScenarioCalls)

ScenarioSpec == InitScenario /\ [][Next]_vars /\ Fairness

----------------------------------------------------------------------------
(* Properties *)

\* The messages of q sent by sender, in queue order
From(q, sender) == SelectSeq(q, LAMBDA msg : msg.sender = sender)

\* The messages appended to p's queue by a step
Appended(p) == SubSeq(message_queue'[p], Len(message_queue[p]) + 1,
                      Len(message_queue'[p]))

\* A step leaves the messages already in p's queue in place
KeepsQueue(p) ==
    /\ Len(message_queue'[p]) >= Len(message_queue[p])
    /\ SubSeq(message_queue'[p], 1, Len(message_queue[p])) = message_queue[p]

\* C1: messages are handled in the order they were sent.  Every send stamps
\* its message with a later reading of the clock than the send before it, so
\* send order is timestamp order: the messages waiting in a mailbox are in
\* send order, and the message being handled was sent before every message
\* still waiting, in particular before those of the same sender.
C1_FifoOrder ==
    \A b \in Agents :
      /\ \A i, j \in 1..Len(message_queue[b]) :
           i < j => message_queue[b][i].timestamp < message_queue[b][j].timestamp
      /\ \A i \in 1..Len(message_queue[b]) :
           last_message[b] # << >> =>
             last_message[b][1].timestamp < message_queue[b][i].timestamp

\* C1 witness: an agent handles a message while a later message of the same
\* sender waits in its mailbox
C1_Witness ==
    \E b \in Agents :
      /\ last_message[b] # << >>
      /\ From(message_queue[b], last_message[b][1].sender) # << >>

\* C2: the step of the Thermostat in which it broadcasts (the control step
\* that changes heating or cooling) appends exactly one message to the
\* mailbox of each registered peer, the same type and content for all, as
\* many messages as there are peers, and none to its own mailbox.
C2_BroadcastFanOut ==
    [][(pc[Thermostat] = "update" /\ pc'[Thermostat] = "publish"
          /\ (heating' # heating \/ cooling' # cooling))
        => /\ \A p \in Agents :
                InRegistry(p, other_agents[Thermostat])
                  => /\ KeepsQueue(p)
                     /\ Len(Appended(p)) = 1
                     /\ Appended(p)[1].sender = Thermostat
                     /\ Appended(p)[1].recipient = p
                     /\ Appended(p)[1].message_type = "status_update"
           /\ \A p, q \in Agents :
                (Appended(p) # << >> /\ Appended(q) # << >>)
                  => /\ Appended(p)[1].message_type = Appended(q)[1].message_type
                     /\ Appended(p)[1].content = Appended(q)[1].content
           /\ message_queue'[Thermostat] = message_queue[Thermostat]
           /\ Len(other_agents[Thermostat]) =
                Cardinality({p \in Agents : Appended(p) # << >>})]_vars

\* C2 witness: a StatusUpdate broadcast by the Thermostat waits in the
\* mailbox of its peer
C2_Witness ==
    \E i \in 1..Len(message_queue[Energy]) :
      /\ message_queue[Energy][i].message_type = "status_update"
      /\ message_queue[Energy][i].sender = Thermostat

\* C3: heating and cooling are never both true.
C3_NotBoth == ~(heating /\ cooling)

\* C3 witness: the Thermostat cools with the efficiency mode on, after it has
\* handled both kinds of Request and ticked twice
C3_Witness ==
    /\ cooling
    /\ energy_efficiency_mode
    /\ ticks[Thermostat] >= 2
    /\ pc[Thermostat] = "sleep"

\* The Thermostat's update_status runs its temperature step and control logic
ControlStep == pc[Thermostat] = "update" /\ pc'[Thermostat] # "update"

\* A step appends to the mailbox of every registered peer of the Thermostat
\* exactly one StatusUpdate that carries the key, and nothing else anywhere
EmitsOne(key) ==
    /\ \A p \in Agents :
         IF InRegistry(p, other_agents[Thermostat])
         THEN /\ KeepsQueue(p)
              /\ Len(Appended(p)) = 1
              /\ Appended(p)[1].message_type = "status_update"
              /\ Appended(p)[1].sender = Thermostat
              /\ key \in DOMAIN Appended(p)[1].content
              /\ Appended(p)[1].content[key] = TRUE
         ELSE message_queue'[p] = message_queue[p]

\* C4 as stated: whenever update_status starts with target_temp -
\* current_temp > 1.0 and heating false, that tick sets heating, clears
\* cooling and emits one heating_started StatusUpdate per peer.
C4_AsStated ==
    [][(ControlStep /\ IsNumber(target_temp)
          /\ target_temp.val - current_temp > 100 /\ ~heating)
        => (heating' /\ ~cooling' /\ EmitsOne("heating_started"))]_vars

\* C4 amended: whenever the control logic of a tick computes temp_diff > 1.0,
\* after that tick's temperature step, with heating false, the tick sets
\* heating, clears cooling and emits exactly one heating_started StatusUpdate
\* per registered peer; and a tick whose control logic computes temp_diff >
\* 1.0 with heating already true changes no flag and sends nothing.
C4_HeatingStarts ==
    [][(ControlStep /\ IsNumber(target_temp)
          /\ target_temp.val - current_temp' > 100)
        => IF ~heating
           THEN heating' /\ ~cooling' /\ EmitsOne("heating_started")
           ELSE /\ heating' /\ cooling' = cooling
                /\ message_queue' = message_queue]_vars

\* C4 witness: the Thermostat, heating since an earlier tick, has run the
\* control logic of a following tick with temp_diff still above 1.0
C4_Witness ==
    /\ heating
    /\ pc[Thermostat] = "publish"
    /\ IsNumber(target_temp)
    /\ target_temp.val - current_temp > 100
    /\ GetFlag(status[Thermostat], "heating")

\* The Thermostat is about to handle a set_temperature Request
SetTemperatureNext ==
    /\ current = Thermostat
    /\ pc[Thermostat] = "drain"
    /\ message_queue[Thermostat] # << >>
    /\ Head(message_queue[Thermostat]).message_type = "request"
    /\ "set_temperature" \in DOMAIN Head(message_queue[Thermostat]).content

\* C5: handling a Request {set_temperature: v} sets target_temp to v and
\* appends exactly one Response {temperature_set: true, new_target: v} to the
\* mailbox of the Request's sender; no other mailbox receives anything (the
\* Thermostat's own only loses the Request).
C5_SetTemperature ==
    [][SetTemperatureNext
        => LET request == Head(message_queue[Thermostat])
               v == request.content.set_temperature
           IN /\ target_temp' = v
              /\ KeepsQueue(request.sender)
              /\ Len(Appended(request.sender)) = 1
              /\ Appended(request.sender)[1].message_type = "response"
              /\ Appended(request.sender)[1].sender = Thermostat
              /\ Appended(request.sender)[1].recipient = request.sender
              /\ Appended(request.sender)[1].content =
                   [temperature_set |-> TRUE, new_target |-> v]
              /\ message_queue'[Thermostat] = Tail(message_queue[Thermostat])
              /\ \A p \in Agents \ {Thermostat, request.sender} :
                   message_queue'[p] = message_queue[p]]_vars

\* C5 witness: the Response to a set_temperature Request waits in the
\* sender's mailbox and target_temp is the requested value
C5_Witness ==
    \E i \in 1..Len(message_queue[Energy]) :
      /\ message_queue[Energy][i].message_type = "response"
      /\ message_queue[Energy][i].content.new_target = Float(7080)
      /\ target_temp = Float(7080)
      /\ last_message[Thermostat] # << >>
      /\ last_message[Thermostat][1].sender = Energy

\* A step appends a Coordination message to some mailbox
CoordinationSent ==
    \E p \in Agents : \E i \in 1..Len(Appended(p)) :
      Appended(p)[i].message_type = "coordination"

C7_AsStated ==
    (pc[Energy] = "sleep" /\ peak_hours /\ consumption = 20)
      => energy_saving_mode

\* What the code does instead: the consumption is never above 20.0, the mode
\* is never set and no Coordination message is ever in a mailbox
C7_NeverSaves ==
    /\ ~energy_saving_mode
    /\ consumption <= 20
    /\ \A a \in Agents : \A i \in 1..Len(message_queue[a]) :
         message_queue[a][i].message_type # "coordination"

\* C8: once the demo has called stop() on every agent, every run loop exits
\* without beginning another tick, a loop still running at that moment by
\* its loop test (a loop that had ended before by raising stays ended), and
\* the join then completes: the demo reaches its final report with every
\* task done and every flag false.
C8_StopJoins ==
    /\ (supPc = "join") ~> (supPc = "done")
    /\ [][(supPc = "join" \/ supPc = "done")
           => /\ ticks' = ticks
              /\ \A a \in Agents : pc'[a] = "failed" => pc[a] = "failed"]_vars
    /\ [](supPc = "done" => \A a \in Agents : TaskDone(a) /\ ~running[a])
    /\ [](supPc = "join" => \A a \in Agents : ~running[a])

\* C8 witness: the demo has joined both loops after they ran their ticks, and
\* both exited by the loop test
C8_Witness ==
    /\ supPc = "done"
    /\ \A a \in Agents : pc[a] = "stopped" /\ ticks[a] = MaxTicks

\* The status an agent publishes is the snapshot of its fields
Published(a) ==
    IF a = Thermostat
    THEN status[a] = [current_temp |-> Round1(current_temp),
                      target_temp |-> target_temp,
                      heating |-> heating,
                      cooling |-> cooling,
                      energy_efficiency_mode |-> energy_efficiency_mode]
    ELSE /\ DOMAIN status[a] = {"total_consumption", "current_consumption",
                                "peak_hours", "energy_saving_mode",
                                "appliance_usage"}
         /\ status[a].total_consumption = Round2(total_consumption)
         /\ status[a].current_consumption = consumption
         /\ status[a].peak_hours = peak_hours
         /\ status[a].energy_saving_mode = energy_saving_mode

\* C9: stop() does not abort a tick in progress.  A run loop exits only by
\* its loop test finding the flag false; a drain, once begun, ends only with
\* the mailbox empty, an update step only by going on to publish, and the
\* publishing only with the new snapshot as the status and the agent asleep
\* (or by a failure raised in the tick), whatever the flag is meanwhile.
C9_CooperativeStop ==
    [][\A a \in Agents :
         /\ (pc[a] # "stopped" /\ pc'[a] = "stopped")
              => (pc[a] = "test" /\ ~running[a])
         /\ (pc[a] = "drain" /\ pc'[a] # "drain")
              => ((pc'[a] = "update" /\ message_queue[a] = << >>)
                    \/ pc'[a] = "failed")
         /\ (pc[a] = "update" /\ pc'[a] # "update")
              => pc'[a] \in {"publish", "failed"}
         /\ (pc[a] = "publish" /\ pc'[a] # "publish")
              => (pc'[a] = "sleep" /\ Published(a)')]_vars

\* C9 witness: stop() reached the Thermostat inside a tick (its flag is false
\* after the loop test of that tick found it true), and the tick has gone on
\* to handle the Request in its mailbox and to run the control logic, which
\* started the heating
C9_Witness ==
    /\ ~running[Thermostat]
    /\ pc[Thermostat] = "publish"
    /\ supPc = "sleeping"
    /\ heating
    /\ target_temp = Float(7305)
    /\ message_queue[Thermostat] = << >>

\* C10 as stated, in what it requires of a completed shutdown: the demo ends
\* its shutdown normally, final report printed, only if every run loop has
\* reached Stopped, that is, has exited by its loop test after stop(); with a
\* loop that never reaches Stopped it would end in PartialShutdown instead.
C10_AsStated ==
    supPc = "done" => \A a \in Agents : pc[a] = "stopped"

\* What the code does instead: the join waits, without any limit of time,
\* until every task is done, whether it returned or raised
C10_JoinWaitsForAll ==
    [][(supPc = "join" /\ supPc' # "join")
        => (supPc' = "done" /\ \A a \in Agents : TaskDone(a))]_vars

\* A Request for 80 degrees waits in the Thermostat's mailbox
Delivered80 ==
    \E i \in 1..Len(message_queue[Thermostat]) :
      /\ message_queue[Thermostat][i].message_type = "request"
      /\ "set_temperature" \in DOMAIN message_queue[Thermostat][i].content
      /\ message_queue[Thermostat][i].content.set_temperature = Float(8000)

\* C11: in the end-to-end scenario (start at 72/72, a set_temperature=80
\* Request delivered to the Thermostat, the agents running on), once the
\* Thermostat ticks with the Request in its mailbox heating becomes true; the
\* step that turns heating on enqueues one heating_started StatusUpdate for
\* the EnergyAgent; and every EnergyAgent update step that reads heating=true
\* in the Thermostat's status, the first one included, sets
\* appliance_usage["hvac"] to 15.0.
C11_EndToEnd ==
    /\ (Delivered80 /\ pc[Thermostat] = "drain") ~> heating
    /\ [][(~heating /\ heating')
           => (target_temp = Float(8000) /\ EmitsOne("heating_started"))]_vars
    /\ [][(pc[Energy] = "update" /\ pc'[Energy] = "publish"
             /\ GetFlag(status[Thermostat], "heating"))
           => appliance_usage'["hvac"] = 15]_vars

\* C11 witness: the EnergyAgent has just measured 15.0 for the hvac, having
\* measured 0.0 the tick before, with the Thermostat heating towards 80
C11_Witness ==
    /\ pc[Energy] = "publish"
    /\ appliance_usage["hvac"] = 15
    /\ "current_consumption" \in DOMAIN status[Energy]
    /\ status[Energy].current_consumption = 5
    /\ heating
    /\ target_temp = Float(8000)

\* The Thermostat is about to handle a set_temperature Request whose sender
\* is not in its registry: the Response of line 157 has an unknown recipient
UnknownRecipientNext ==
    /\ SetTemperatureNext
    /\ ~InRegistry(Head(message_queue[Thermostat]).sender, other_agents[Thermostat])

\* C12: a send_message to a recipient that is not in the sender's registry
\* (the Thermostat's Response to a Request from an agent it has not
\* registered) enqueues nothing on any mailbox, reads no clock, changes no
\* agent's state (the handler's own assignment of target_temp apart), raises
\* nothing, and the Thermostat goes on with its tick: it keeps the event loop
\* and stays in its drain.
C12_UnknownRecipient ==
    [][UnknownRecipientNext
        => /\ message_queue' =
                [message_queue EXCEPT ![Thermostat] = Tail(@)]
           /\ clock' = clock
           /\ target_temp' = Head(message_queue[Thermostat]).content.set_temperature
           /\ pc' = pc
           /\ current' = current
           /\ UNCHANGED <<running, other_agents, status, current_temp, heating,
                          cooling, energy_efficiency_mode, energyVars, ticks>>]_vars

\* C12 witness: the Thermostat has handled the outsider's Request, its
\* Response went nowhere, and the same tick has run the control logic, which
\* started the heating for the new target
C12_Witness ==
    /\ pc[Thermostat] = "publish"
    /\ heating
    /\ target_temp = Float(7305)
    /\ message_queue[Energy] # << >>
    /\ \A i \in 1..Len(message_queue[Energy]) :
         message_queue[Energy][i].message_type = "status_update"
    /\ message_queue[Thermostat] = << >>

\* Agent a is about to handle a Request that names no operation it implements
UnsupportedNext(a) ==
    /\ current = a
    /\ pc[a] = "drain"
    /\ message_queue[a] # << >>
    /\ Head(message_queue[a]).message_type = "request"
    /\ a = Thermostat
         => /\ "set_temperature" \notin DOMAIN Head(message_queue[a]).content
            /\ "energy_efficiency_mode" \notin DOMAIN Head(message_queue[a]).content

\* C13 as stated: handling a Request that names no operation of the receiver
\* enqueues a Response for the Request's sender, and the receiver's run loop
\* goes on.
C13_AsStated ==
    [][\A a \in Agents :
         UnsupportedNext(a)
           => /\ Len(Appended(Head(message_queue[a]).sender)) = 1
              /\ Appended(Head(message_queue[a]).sender)[1].message_type = "response"
              /\ Appended(Head(message_queue[a]).sender)[1].recipient =
                   Head(message_queue[a]).sender
              /\ pc'[a] = "drain"]_vars

\* What the code does instead: the Request is dropped without any answer;
\* the receiver's loop goes on
C13_DroppedSilently ==
    [][\A a \in Agents :
         UnsupportedNext(a)
           => /\ message_queue' = [message_queue EXCEPT ![a] = Tail(@)]
              /\ pc'[a] = "drain"
              /\ UNCHANGED <<thermoVars, energyVars, status>>]_vars

\* C14 as stated: no failure raised in the handling of a message ends a run
\* loop; an agent's task ends only by the loop test after stop().
C14_AsStated ==
    \A a \in Agents : pc[a] # "failed"

\* What the code does instead: a loop ends by a failure only in the
\* Thermostat, only with a target_temp that is not a number, and then for good
C14_FailureEndsLoop ==
    [][\A a \in Agents :
         /\ (pc[a] # "failed" /\ pc'[a] = "failed")
              => (a = Thermostat /\ ~IsNumber(target_temp'))
         /\ pc[a] = "failed" => (pc'[a] = "failed" /\ ticks'[a] = ticks[a])]_vars

\* C15 as stated: no two Messages of a run have the same message id; in
\* particular no two Messages waiting in the mailboxes at the same time.
C15_AsStated ==
    \A a, b \in Agents :
      \A i \in 1..Len(message_queue[a]), j \in 1..Len(message_queue[b]) :
        (a # b \/ i # j)
          => message_queue[a][i].message_id # message_queue[b][j].message_id

\* What the code guarantees: two Messages with the same id have the same
\* sender, and their ids carry the same reading of the clock
C15_SameIdSameSender ==
    \A a, b \in Agents :
      \A i \in 1..Len(message_queue[a]), j \in 1..Len(message_queue[b]) :
        message_queue[a][i].message_id = message_queue[b][j].message_id
          => message_queue[a][i].sender = message_queue[b][j].sender

\* C16 as stated: once stop() has been requested for an agent, its running
\* flag is never true again and it begins no further tick, whether stop()
\* came before or after the first step of run().
C16_AsStated ==
    [][\A a \in Agents :
         stop_requested[a] => (~running'[a] /\ ticks'[a] = ticks[a])]_vars

\* What the code does instead: run() sets the flag when it starts, whatever
\* was requested before; only the task's first step makes the flag true
C16_OnlyStartSets ==
    [][\A a \in Agents :
         (~running[a] /\ running'[a]) => (pc[a] = "created" /\ pc'[a] = "test")]_vars

\* The registries form a symmetric full mesh without self-registration
FullMesh ==
    \A a \in Agents :
      /\ ~InRegistry(a, other_agents[a])
      /\ \A b \in Agents \ {a} :
           InRegistry(b, other_agents[a]) /\ InRegistry(a, other_agents[b])
      /\ \A i \in 1..Len(other_agents[a]) : other_agents[a][i] \in Agents
      /\ Len(other_agents[a]) = Cardinality(Agents) - 1

\* C17: from the end of the wiring step on the registries form a symmetric
\* full mesh (every other agent under its name, once, and never the owner),
\* and no step after the wiring changes a registry.
C17_FullMesh ==
    /\ [](supPc # "wire" => FullMesh)
    /\ [][supPc # "wire" => other_agents' = other_agents]_vars

\* C17 witness: both loops have ticked, the Thermostat has sent through its
\* registry, and the registries are the mesh the wiring built
C17_Witness ==
    /\ supPc = "sleeping"
    /\ \A a \in Agents : ticks[a] >= 2
    /\ other_agents[Thermostat] = <<Energy>>
    /\ other_agents[Energy] = <<Thermostat>>
    /\ message_queue[Energy] # << >>

\* The snapshot agent a assigned to self.status in its last completed update
\* step: its entries as they were at that assignment ({} before the first)
LastPublished(a) ==
    IF "appliance_usage" \in DOMAIN status[a]
    THEN [status[a] EXCEPT !["appliance_usage"] = published_usage]
    ELSE status[a]

\* C18: the final report, made after the join, maps every agent's name to
\* the snapshot the agent published in its last completed update step, and
\* once the join is over no agent's status, nor anything a status refers to,
\* nor the report, changes.
C18_FinalReport ==
    /\ [](supPc = "done"
            => /\ DOMAIN final_report = Agents
               /\ \A a \in Agents : final_report[a] = LastPublished(a))
    /\ [][supPc = "done"
           => UNCHANGED <<status, appliance_usage, final_report>>]_vars

\* C18 witness: the report is made; it shows the Thermostat heating towards
\* the target it was asked for and the hvac usage the EnergyAgent measured
\* from that, both loops having exited by their loop test
C18_Witness ==
    /\ supPc = "done"
    /\ \A a \in Agents : pc[a] = "stopped"
    /\ final_report[Thermostat].heating
    /\ final_report[Thermostat].target_temp = Float(7305)
    /\ final_report[Energy].appliance_usage = [hvac |-> 15]
    /\ final_report[Energy].current_consumption = 20

\* The control logic of a Thermostat tick runs to its end; temp_diff is what
\* it computes, after the tick's temperature step
ControlRuns == ControlStep /\ IsNumber(target_temp)

\* C19: when the control logic computes temp_diff < -1.0 and cooling is
\* false, the tick sets cooling, clears heating (also if it was heating) and
\* sends exactly one cooling_started StatusUpdate to every registered peer;
\* when cooling is already true, it changes no flag and sends nothing.
C19_CoolingStarts ==
    [][(ControlRuns /\ target_temp.val - current_temp' < 0 - 100)
        => IF ~cooling
           THEN cooling' /\ ~heating' /\ EmitsOne("cooling_started")
           ELSE /\ cooling' /\ heating' = heating
                /\ message_queue' = message_queue]_vars

\* C19 witness: the control logic has just switched from heating to cooling
\* (the status still shows the heating of the tick before) and the
\* cooling_started StatusUpdate waits in the EnergyAgent's mailbox
C19_Witness ==
    /\ pc[Thermostat] = "publish"
    /\ cooling /\ ~heating
    /\ GetFlag(status[Thermostat], "heating")
    /\ message_queue[Energy] # << >>
    /\ "cooling_started" \in
         DOMAIN message_queue[Energy][Len(message_queue[Energy])].content

\* C20: when the control logic computes |temp_diff| < 0.5 while heating or
\* cooling is true, the tick clears both flags and sends exactly one
\* climate_control_off StatusUpdate to every registered peer; with both flags
\* already false it changes no flag and sends nothing.
C20_ClimateOff ==
    [][(ControlRuns /\ target_temp.val - current_temp' < 50
                    /\ current_temp' - target_temp.val < 50)
        => IF heating \/ cooling
           THEN ~heating' /\ ~cooling' /\ EmitsOne("climate_control_off")
           ELSE /\ ~heating' /\ ~cooling'
                /\ message_queue' = message_queue]_vars

\* C20 witness: the control logic has just turned the heating off within half
\* a degree of the target (the status still shows the heating of the tick
\* before) and the climate_control_off StatusUpdate waits in the
\* EnergyAgent's mailbox
C20_Witness ==
    /\ pc[Thermostat] = "publish"
    /\ ~heating /\ ~cooling
    /\ GetFlag(status[Thermostat], "heating")
    /\ message_queue[Energy] # << >>
    /\ "climate_control_off" \in
         DOMAIN message_queue[Energy][Len(message_queue[Energy])].content

\* |x| of an integer
Abs(x) == IF x < 0 THEN 0 - x ELSE x

\* C21: in a tick whose control logic computes 0.5 <= |temp_diff| <= 1.0,
\* heating and cooling keep the values they had and no message is sent,
\* whatever those values were.
C21_DeadZone ==
    [][(ControlRuns /\ Abs(target_temp.val - current_temp') >= 50
                    /\ Abs(target_temp.val - current_temp') <= 100)
        => /\ heating' = heating
           /\ cooling' = cooling
           /\ message_queue' = message_queue]_vars

\* C21 witness: the Thermostat, heating since the tick before, has run its
\* control logic in the band, three quarters of a degree under the target,
\* and is still heating
C21_Witness ==
    /\ pc[Thermostat] = "publish"
    /\ heating
    /\ GetFlag(status[Thermostat], "heating")
    /\ IsNumber(target_temp)
    /\ target_temp.val - current_temp = 75

\* The Thermostat is about to handle an energy_efficiency_mode Request
EfficiencyNext ==
    /\ current = Thermostat
    /\ pc[Thermostat] = "drain"
    /\ message_queue[Thermostat] # << >>
    /\ Head(message_queue[Thermostat]).message_type = "request"
    /\ "set_temperature" \notin DOMAIN Head(message_queue[Thermostat]).content
    /\ "energy_efficiency_mode" \in DOMAIN Head(message_queue[Thermostat]).content

\* What C22 says of the step that handles an energy_efficiency_mode Request
EfficiencyEffect ==
    LET on == Head(message_queue[Thermostat]).content.energy_efficiency_mode
    IN /\ energy_efficiency_mode' = on
       /\ target_temp' = IF on /\ heating THEN Float(target_temp.val - 200)
                         ELSE IF on /\ cooling THEN Float(target_temp.val + 200)
                         ELSE target_temp

\* C22 as stated: handling a Request {energy_efficiency_mode: b} sets the flag
\* to b; target_temp goes down by exactly 2 if b is true while heating, up by
\* exactly 2 if b is true while cooling, and is unchanged otherwise.
C22_AsStated ==
    [][EfficiencyNext => EfficiencyEffect]_vars

\* What the code does: the same whenever target_temp is a number; otherwise
\* the flag is set and the subtraction or addition raises
C22_NumberTarget ==
    [][EfficiencyNext
        => IF IsNumber(target_temp) \/ ~(heating \/ cooling)
                \/ ~Head(message_queue[Thermostat]).content.energy_efficiency_mode
           THEN EfficiencyEffect /\ pc' = pc
           ELSE /\ pc'[Thermostat] = "failed"
                /\ energy_efficiency_mode'
                /\ target_temp' = target_temp]_vars

\* C23 as stated: after the EnergyAgent has set peak_hours in a tick, it is
\* true exactly when the hour h of the wall clock satisfies 16 <= h < 20.
C23_AsStated ==
    pc[Energy] = "publish" => (peak_hours <=> (16 <= hour /\ hour < 20))

\* What the code does instead: hour 20 counts as a peak hour
C23_Inclusive ==
    pc[Energy] = "publish" => (peak_hours <=> (16 <= hour /\ hour < 21))

\* The EnergyAgent's update step computes the consumption
MeasureStep == pc[Energy] = "update" /\ pc'[Energy] = "publish"

\* What the hvac adds, by the Thermostat's published status as the
\* EnergyAgent finds it
HvacShare ==
    IF ~InRegistry(Thermostat, other_agents[Energy]) THEN 0
    ELSE IF "heating" \in DOMAIN status[Thermostat] /\ status[Thermostat].heating
      THEN 15
    ELSE IF "cooling" \in DOMAIN status[Thermostat] /\ status[Thermostat].cooling
      THEN 12
    ELSE 0

\* C24: in every EnergyAgent tick the consumption is 5.0 plus 15.0 if the
\* Thermostat's published status shows heating, else plus 12.0 if it shows
\* cooling, else plus 0 (also with no status published yet, or no Thermostat
\* registered); appliance_usage["hvac"] becomes consumption - 5.0; and the
\* step changes nothing of the Thermostat: neither its fields, nor its
\* status, mailbox, flag or position.
C24_Consumption ==
    [][MeasureStep
        => /\ consumption' = 5 + HvacShare
           /\ appliance_usage'["hvac"] = consumption' - 5
           /\ UNCHANGED <<thermoVars, status, message_queue, running>>
           /\ pc'[Thermostat] = pc[Thermostat]]_vars

\* C24 witness: the EnergyAgent has measured 17.0, 12.0 of it for the hvac,
\* from a status that shows cooling; the tick before it had measured 5.0
C24_Witness ==
    /\ pc[Energy] = "publish"
    /\ consumption = 17
    /\ appliance_usage["hvac"] = 12
    /\ GetFlag(status[Thermostat], "cooling")
    /\ "current_consumption" \in DOMAIN status[Energy]
    /\ status[Energy].current_consumption = 5

\* C25: total_consumption never decreases; every EnergyAgent tick adds
\* consumption / 60 to it, with consumption >= 5.0, and no other step
\* changes it.  (total_consumption is counted in sixtieths.)
C25_Monotone ==
    [][/\ total_consumption' >= total_consumption
       /\ IF MeasureStep
          THEN /\ consumption' >= 5
               /\ total_consumption' = total_consumption + consumption'
          ELSE total_consumption' = total_consumption]_vars

\* C25 witness: after three ticks, one without hvac and two with heating, the
\* total is (5 + 20 + 20) / 60
C25_Witness ==
    /\ pc[Energy] = "sleep"
    /\ ticks[Energy] = 3
    /\ total_consumption = 45

\* C26 as stated: the drain of every tick ends with the agent's mailbox
\* empty, every message that was queued having been handled in it.
C26_AsStated ==
    [][\A a \in Agents :
         (pc[a] = "drain" /\ pc'[a] # "drain") => message_queue'[a] = << >>]_vars

\* What the code does: a drain takes the messages one by one from the head;
\* it ends with the mailbox empty and goes on to the update step, unless a
\* handler raises, which ends the drain and the loop with the rest of the
\* messages left in the mailbox; the update step runs on an empty mailbox
C26_DrainsUnlessRaised ==
    /\ [][\A a \in Agents :
            /\ (pc[a] = "drain" /\ message_queue[a] # << >>)
                 => message_queue'[a] = Tail(message_queue[a])
            /\ (pc[a] = "drain" /\ pc'[a] # "drain")
                 => \/ pc'[a] = "update" /\ message_queue'[a] = << >>
                    \/ pc'[a] = "failed"]_vars
    /\ [](\A a \in Agents :
            (current = a /\ pc[a] \in {"update", "publish"})
              => message_queue[a] = << >>)

\* The Thermostat begins its tick number k with one Request in its mailbox,
\* which sets the temperature to 73.05
TickStartsWithRequest(k) ==
    /\ current = Thermostat
    /\ pc[Thermostat] = "drain"
    /\ ticks[Thermostat] = k
    /\ Len(message_queue[Thermostat]) = 1
    /\ SetTemperatureNext
    /\ Head(message_queue[Thermostat]).content.set_temperature = Float(7305)

\* The Thermostat sleeps at the end of its tick number k, having decided and
\* published with the target 73.05: it heats if that target is more than a
\* degree above the temperature
TickUsedRequest(k) ==
    /\ pc[Thermostat] = "sleep"
    /\ ticks[Thermostat] = k
    /\ target_temp = Float(7305)
    /\ status[Thermostat].target_temp = Float(7305)
    /\ status[Thermostat].heating = heating
    /\ status[Thermostat].cooling = cooling
    /\ 7305 - current_temp > 100 => heating
    /\ ~cooling

\* C27: a tick drains, then updates, then sleeps.  The control logic runs
\* only with the mailbox empty, and the status is assigned only after it,
\* with the target the control logic used; so a set_temperature Request in
\* the mailbox when a tick starts has set target_temp before that tick's
\* control decision, and the decision and the status published in the same
\* tick use the new target.
C27_DrainThenUpdate ==
    /\ \A k \in 1..(MaxTicks + 1) :
         TickStartsWithRequest(k) ~> TickUsedRequest(k)
    /\ [][ControlStep => message_queue[Thermostat] = << >>]_vars
    /\ [][(pc[Thermostat] = "publish" /\ pc'[Thermostat] # "publish")
           => (pc'[Thermostat] = "sleep"
                 /\ target_temp' = target_temp
                 /\ status'[Thermostat].target_temp = target_temp)]_vars
    /\ [][\A a \in Agents :
            (pc[a] = "test" /\ pc'[a] # "test") => pc'[a] \in {"drain", "stopped"}]_vars

\* C27 witness: the Thermostat sleeps after its first tick, which found the
\* Request, and the status of that tick shows the new target and the heating
\* decided for it
C27_Witness ==
    /\ pc[Thermostat] = "sleep"
    /\ ticks[Thermostat] = 1
    /\ status[Thermostat].target_temp = Float(7305)
    /\ status[Thermostat].heating

\* Agent a is between the start of its drain and the end of its update step
MidTick(a) == pc[a] \in {"drain", "update", "publish"}

\* The fields of the subclass of agent a
OwnFields(a) == IF a = Thermostat THEN thermoVars ELSE energyVars

\* C28: while an agent is between the start of its drain and the end of its
\* update step, it holds the event loop, and every step taken is its own: no
\* other agent moves, publishes, or changes a field of its own, no stop()
\* changes a flag, the demo and the drivers do nothing; another agent's
\* mailbox only grows, by what the agent in its tick sends.
C28_RunToCompletion ==
    /\ [](\A a \in Agents : MidTick(a) => current = a)
    /\ [][\A a \in Agents :
            MidTick(a)
              => /\ \A b \in Agents \ {a} :
                      /\ pc'[b] = pc[b]
                      /\ status'[b] = status[b]
                      /\ ticks'[b] = ticks[b]
                      /\ OwnFields(b)' = OwnFields(b)
                      /\ KeepsQueue(b)
                      /\ \A i \in 1..Len(Appended(b)) : Appended(b)[i].sender = a
                 /\ running' = running
                 /\ supPc' = supPc
                 /\ issued' = issued
                 /\ final_report' = final_report]_vars

\* C28 witness: the Thermostat is at the end of an update step in which it
\* broadcast; the StatusUpdate waits in the mailbox of the EnergyAgent, which
\* has slept since its second tick
C28_Witness ==
    /\ pc[Thermostat] = "publish"
    /\ current = Thermostat
    /\ pc[Energy] = "sleep"
    /\ ticks[Energy] = 2
    /\ message_queue[Energy] # << >>
    /\ message_queue[Energy][Len(message_queue[Energy])].message_type = "status_update"
    /\ heating # GetFlag(status[Thermostat], "heating")

\* C29 as stated: what a reader obtains from an agent's status changes only
\* by the assignment of a new snapshot at the end of that agent's update
\* step.
C29_AsStated ==
    [][\A a \in Agents :
         StatusView(a)' # StatusView(a)
           => (pc[a] = "publish" /\ pc'[a] = "sleep")]_vars

\* What the code does: the status itself is only ever replaced, at the end of
\* the update step, and the Thermostat's has no part that changes otherwise;
\* the EnergyAgent's "appliance_usage" entry is the agent's own dict, which
\* the update step writes before it assigns the new status
C29_OnlyUsageAliased ==
    [][/\ \A a \in Agents :
            status'[a] # status[a] => (pc[a] = "publish" /\ pc'[a] = "sleep")
       /\ StatusView(Thermostat)' # StatusView(Thermostat)
            => status'[Thermostat] # status[Thermostat]
       /\ (StatusView(Energy)' # StatusView(Energy)
             /\ status'[Energy] = status[Energy])
            => (MeasureStep /\ appliance_usage' # appliance_usage)]_vars

\* Agent a is about to handle a message it has no handling for
UnhandledNext(a) ==
    /\ current = a
    /\ pc[a] = "drain"
    /\ message_queue[a] # << >>
    /\ a = Thermostat => Head(message_queue[a]).message_type # "request"

\* C30: a message the receiver has no handling for (any message that is no
\* Request at the Thermostat, any message at the EnergyAgent) is taken from
\* the mailbox; the step changes no field, status or flag, sends nothing,
\* reads no clock, and the agent stays in its drain, holding the event loop.
C30_Ignored ==
    [][\A a \in Agents :
         UnhandledNext(a)
           => /\ message_queue' = [message_queue EXCEPT ![a] = Tail(@)]
              /\ UNCHANGED <<thermoVars, energyVars, status, running, clock,
                             ticks, other_agents>>
              /\ pc' = pc
              /\ current' = current]_vars

\* C30 witness: the Thermostat has just taken a Coordination message from
\* its mailbox and is still in its drain, its fields as constructed
C30_Witness ==
    /\ pc[Thermostat] = "drain"
    /\ last_message[Thermostat] # << >>
    /\ last_message[Thermostat][1].message_type = "coordination"
    /\ last_message[Thermostat][1].sender = Energy
    /\ ~energy_efficiency_mode
    /\ target_temp = Float(7200)

\* C31: the consumption the EnergyAgent computes in a tick is 5.0, 17.0 or
\* 20.0 (in the model 0 stands for "no tick has computed it yet"), and so is
\* the current_consumption it publishes; it never exceeds 20.0, so the test
\* "consumption > 20.0" of the energy-saving recommendation is never true.
C31_ConsumptionValues ==
    /\ IF "hvac" \in DOMAIN appliance_usage
       THEN consumption \in {5, 17, 20}
       ELSE consumption = 0
    /\ "hvac" \in DOMAIN appliance_usage => appliance_usage["hvac"] = consumption - 5
    /\ "current_consumption" \in DOMAIN status[Energy]
         => status[Energy].current_consumption \in {5, 17, 20}
    /\ ~(consumption > 20)
    /\ ~SavingTrigger(TRUE, consumption, FALSE)

\* C31 witness: in a peak hour the EnergyAgent has computed 20.0, the
\* largest value, from a status that shows heating, and is at the test
C31_Witness ==
    /\ pc[Energy] = "publish"
    /\ consumption = 20
    /\ peak_hours
    /\ ~energy_saving_mode
    /\ GetFlag(status[Thermostat], "heating")

\* C32: once the control logic of a Thermostat tick has run (the tick is at
\* its status assignment or asleep), with temp_diff = target_temp -
\* current_temp: temp_diff > 1.0 implies heating, temp_diff < -1.0 implies
\* cooling, and with neither flag set |temp_diff| <= 1.0.
C32_FlagsFollowDiff ==
    pc[Thermostat] \in {"publish", "sleep"}
      => /\ IsNumber(target_temp)
         /\ LET temp_diff == target_temp.val - current_temp
            IN /\ temp_diff > 100 => heating
               /\ temp_diff < 0 - 100 => cooling
               /\ (~heating /\ ~cooling) => Abs(temp_diff) <= 100

\* C32 witness: a tick that found heating already on (the published status
\* shows it) has ended its control logic with temp_diff still above 1.0
C32_Witness ==
    /\ pc[Thermostat] = "publish"
    /\ GetFlag(status[Thermostat], "heating")
    /\ heating
    /\ IsNumber(target_temp)
    /\ target_temp.val - current_temp > 100

\* The published status of the Thermostat shows the agent's own heating,
\* cooling, target_temp and energy_efficiency_mode
StatusShowsFields ==
    /\ DOMAIN status[Thermostat] # {}
    /\ status[Thermostat].heating = heating
    /\ status[Thermostat].cooling = cooling
    /\ status[Thermostat].target_temp = target_temp
    /\ status[Thermostat].energy_efficiency_mode = energy_efficiency_mode

\* C35 as stated: whenever the Thermostat's loop is sleeping, or has exited
\* after at least one completed tick, the published heating, cooling,
\* target_temp and energy_efficiency_mode equal the agent's fields.
C35_AsStated ==
    (pc[Thermostat] \in {"sleep", "stopped", "failed"}
       /\ DOMAIN status[Thermostat] # {})
      => StatusShowsFields

\* What the code does: the same while the loop sleeps and after it has
\* exited by its loop test; a loop that has exited by an exception has
\* written fields after its last status assignment
C35_UnlessRaised ==
    /\ pc[Thermostat] \in {"sleep", "stopped"} => StatusShowsFields
    /\ pc[Thermostat] = "failed" => ~IsNumber(target_temp)

\* C36: the adjustment of target_temp goes with every enabling Request, not
\* with the flag's change: a Request {energy_efficiency_mode: true} handled
\* while the mode is already enabled lowers target_temp by 2 again while
\* heating and raises it by 2 again while cooling; a disabling Request
\* leaves target_temp as it is, whatever was taken from it before.
C36_PerRequest ==
    [][EfficiencyNext
        => LET on == Head(message_queue[Thermostat]).content.energy_efficiency_mode
           IN /\ energy_efficiency_mode' = on
              /\ (on /\ energy_efficiency_mode /\ heating)
                   => target_temp' = Float(target_temp.val - 200)
              /\ (on /\ energy_efficiency_mode /\ cooling)
                   => target_temp' = Float(target_temp.val + 200)
              /\ ~on => target_temp' = target_temp]_vars

\* C36 witness: the Thermostat, heating, has handled two enabling Requests
\* in a row: the target of 73.05 has gone down by 2 twice
C36_Witness ==
    /\ pc[Thermostat] = "drain"
    /\ heating
    /\ energy_efficiency_mode
    /\ target_temp = Float(6905)
    /\ last_message[Thermostat] # << >>
    /\ "energy_efficiency_mode" \in DOMAIN last_message[Thermostat][1].content

\* The Thermostat is about to handle a Request that holds both keys
BothKeysNext ==
    /\ SetTemperatureNext
    /\ "energy_efficiency_mode" \in DOMAIN Head(message_queue[Thermostat]).content

\* C37: a Request that holds both set_temperature and energy_efficiency_mode
\* has only set_temperature applied: target_temp becomes the value sent, one
\* Response goes to the sender and nothing anywhere else, and the flag
\* energy_efficiency_mode stays as it was, with no adjustment by 2.
C37_SetTemperatureWins ==
    [][BothKeysNext
        => LET request == Head(message_queue[Thermostat])
           IN /\ target_temp' = request.content.set_temperature
              /\ energy_efficiency_mode' = energy_efficiency_mode
              /\ UNCHANGED <<heating, cooling, current_temp>>
              /\ message_queue'[Thermostat] = Tail(message_queue[Thermostat])
              /\ KeepsQueue(request.sender)
              /\ Len(Appended(request.sender)) = 1
              /\ Appended(request.sender)[1].message_type = "response"
              /\ Appended(request.sender)[1].content =
                   [temperature_set |-> TRUE,
                    new_target |-> request.content.set_temperature]]_vars

\* C37 witness: the Thermostat, heating, has handled a Request that holds
\* 73.05 and energy_efficiency_mode true: the target is 73.05, not 71.05, and
\* the mode is disabled
C37_Witness ==
    /\ pc[Thermostat] = "drain"
    /\ heating
    /\ last_message[Thermostat] # << >>
    /\ DOMAIN last_message[Thermostat][1].content
         = {"set_temperature", "energy_efficiency_mode"}
    /\ last_message[Thermostat][1].content.energy_efficiency_mode
    /\ ~energy_efficiency_mode
    /\ target_temp = Float(7305)

\* A message of x's mailbox is addressed to x and comes from a registered
\* peer of x, not from x
WellAddressed(x, msg) ==
    /\ msg.recipient = x
    /\ msg.sender # x
    /\ InRegistry(msg.sender, other_agents[x])

\* C38: under the demo's wiring every message in an agent's mailbox is
\* addressed to that agent and comes from a registered peer of it, never from
\* itself; a mailbox loses messages only by its owner's own pop, one from the
\* front; every other change of a mailbox is an append of messages addressed
\* to its owner, made by the send_message of the agent they name as sender
\* (the agent holding the event loop, if one does); so a send changes no
\* mailbox but the recipient's.
C38_MailboxOwned ==
    /\ [](\A x \in Agents : \A i \in 1..Len(message_queue[x]) :
            WellAddressed(x, message_queue[x][i]))
    /\ [][\A x \in Agents :
            IF current = x /\ pc[x] = "drain" /\ message_queue[x] # << >>
            THEN message_queue'[x] = Tail(message_queue[x])
            ELSE /\ KeepsQueue(x)
                 /\ \A i \in 1..Len(Appended(x)) :
                      /\ WellAddressed(x, Appended(x)[i])
                      /\ current \in Agents => Appended(x)[i].sender = current]_vars

\* C38 witness: both mailboxes hold a message at once, the EnergyAgent's a
\* Response of the Thermostat, the Thermostat's a Request sent by the
\* EnergyAgent
C38_Witness ==
    /\ message_queue[Energy] # << >>
    /\ message_queue[Thermostat] # << >>
    /\ Head(message_queue[Energy]).sender = Thermostat
    /\ Head(message_queue[Energy]).message_type = "response"
    /\ Head(message_queue[Thermostat]).sender = Energy
    /\ FullMesh

\* The control logic switches from heating straight to cooling, or from
\* cooling straight to heating
DirectSwitch == (heating /\ cooling') \/ (cooling /\ heating')

\* C33 as stated: in a tick whose target_temp is what it was at the end of
\* the tick before (no Request has changed it in between), the Thermostat
\* does not go from heating directly to cooling or from cooling directly to
\* heating.
C33_AsStated ==
    [][(ControlRuns
          /\ "target_temp" \in DOMAIN status[Thermostat]
          /\ status[Thermostat].target_temp = target_temp)
        => ~DirectSwitch]_vars

\* C33 amended: while no Request has changed target_temp since the heating
\* (or cooling) was started, the Thermostat does not go from heating directly
\* to cooling or from cooling directly to heating: the heating or cooling
\* ends by the tick that clears both flags and sends climate_control_off.
C33_KeptTarget ==
    [][(ControlRuns /\ target_kept)
        => /\ ~DirectSwitch
           /\ ((heating /\ ~heating') \/ (cooling /\ ~cooling'))
                => /\ ~heating' /\ ~cooling'
                   /\ EmitsOne("climate_control_off")]_vars

\* C33 witness: a heating that no Request has disturbed since it started has
\* just been ended by the control logic, both flags off
C33_Witness ==
    /\ pc[Thermostat] = "publish"
    /\ GetFlag(status[Thermostat], "heating")
    /\ status[Thermostat].target_temp = target_temp
    /\ target_kept
    /\ ~heating
    /\ ~cooling

\* C34: while the Thermostat keeps ticking and target_temp stays what it is,
\* a Thermostat that is heating or cooling eventually has both flags off
\* (the tick that clears them is the one that sends climate_control_off):
\* heating or cooling towards a target never lasts forever.
C34_EventuallyOff ==
    \A v \in SoloTargets :
      ((heating \/ cooling) /\ target_temp = v)
        ~> ((~heating /\ ~cooling) \/ target_temp # v)

\* C34 witness: with no Request ever sent, the temperature has drifted more
\* than a degree below the target of 72, the heating has started and has run
\* until the control logic has just turned it off
C34_Witness ==
    /\ issued = 0
    /\ pc[Thermostat] = "publish"
    /\ GetFlag(status[Thermostat], "heating")
    /\ ~heating
    /\ ~cooling
    /\ target_temp = Float(7200)
====
